---- MODULE Spec2Model ----
(***************************************************************************)
(* R-tree / R*-tree of rstar_tree.py as a state machine.                   *)
(*                                                                         *)
(* The heap of Node objects is a sequence `nodes`; a node's identity is    *)
(* its index, 0 stands for None.  A Rect is a record of four integer       *)
(* coordinates.  A leaf entry (Rect, payload) carries the identity `obj`   *)
(* of its Rect object, because Python compares the entry tuples by the     *)
(* identity of the Rect (Rect defines no __eq__) and the equality of the   *)
(* payload.  Every public call (constructor, insert, range_query, _reset)  *)
(* is one action; an insert threads a record T (heap, root, exception flag *)
(* and a log of what happened inside the call) through the helpers.        *)
(***************************************************************************)
EXTENDS Integers, Sequences, FiniteSets

VARIABLES kind, max_entries, reinsertion_ratio, nodes, root, node_visits,
          inserted, err, last

vars == <<kind, max_entries, reinsertion_ratio, nodes, root, node_visits,
          inserted, err, last>>

(***************************************************************************)
(* Bounds of the model.                                                    *)
(***************************************************************************)
\* number of insert calls explored
MaxInserts == 5
\* number of distinct Rect objects a caller passes to insert
NumRects == 3
\* payloads are 0..MaxPayload
MaxPayload == 1
\* number of insert calls explored where queries interleave with them
MaxInsertsQ == 4
\* range_query is explored while node_visits stays within this cap
MaxVisits == 4
\* the diagonal points (i, i) inserted are those of i in 0..MaxPoint
MaxPoint == 4
\* largest capacity passed to a constructor
MaxCap == 3
\* the grid points (x, y) inserted are those of x, y in 0..MaxGrid
MaxGrid == 2

\* reinsertion_ratio is held in tenths: 3 is 0.3
RatioDen == 10

Min(a, b) == IF a < b THEN a ELSE b
Max(a, b) == IF a > b THEN a ELSE b

(***************************************************************************)
(* Rect                                                                    *)
(***************************************************************************)
Rect(x1, y1, x2, y2) ==
    [x1 |-> Min(x1, x2), y1 |-> Min(y1, y2), x2 |-> Max(x1, x2), y2 |-> Max(y1, y2)]

area(r) == Max(0, r.x2 - r.x1) * Max(0, r.y2 - r.y1)

enlarge(a, b) ==
    Rect(Min(a.x1, b.x1), Min(a.y1, b.y1), Max(a.x2, b.x2), Max(a.y2, b.y2))

intersects(a, b) ==
    ~(a.x2 < b.x1 \/ a.x1 > b.x2 \/ a.y2 < b.y1 \/ a.y1 > b.y2)

\* make_point_rect with 2, 3 and 4 arguments
make_point_rect2(x, y) == Rect(x, y, x, y)
make_point_rect3(x, y, size) == Rect(x, y, x + size, y + size)
make_point_rect4(x1, y1, x2, y2) == Rect(x1, y1, x2, y2)

\* The Rect objects the callers of this model hold, by identity.
RectTable ==
    << make_point_rect2(0, 0), make_point_rect2(3, 0), make_point_rect4(3, 1, 1, 0),
       make_point_rect2(1, 1), make_point_rect3(0, 2, 1), make_point_rect2(2, 2) >>

RectObjs == 1..NumRects
Payloads == 0..MaxPayload

\* query windows: every caller rectangle, and one window over everything
Windows == {RectTable[i] : i \in RectObjs} \cup {make_point_rect4(0, 0, 4, 4)}

(***************************************************************************)
(* Node                                                                    *)
(***************************************************************************)
Node(leaf) == [leaf |-> leaf, entries |-> <<>>, parent |-> 0]

LeafEntry(obj, data) == [r |-> RectTable[obj], c |-> data, obj |-> obj]
ChildEntry(rect, child) == [r |-> rect, c |-> child, obj |-> 0]

\* Node.mbr of a non-empty entry list (the assertion is the caller's guard)
mbr(entries) ==
    LET F[i \in 1..Len(entries)] ==
            IF i = 1 THEN entries[1].r ELSE enlarge(F[i - 1], entries[i].r)
    IN  F[Len(entries)]

\* an exception leaves the call: the heap stays as it is at that point
Raise(T) == [T EXCEPT !.err = TRUE]

\* Node.add: isNode is isinstance(child_or_data, Node)
add(T, n, e, isNode) ==
    LET wired == IF isNode THEN [T.nodes EXCEPT ![e.c].parent = n] ELSE T.nodes
        grown == [wired EXCEPT ![n].entries = Append(@, e)]
    IN  [T EXCEPT !.nodes = grown, !.peak = Max(@, Len(grown[n].entries))]

(***************************************************************************)
(* RTree: insert path                                                      *)
(***************************************************************************)
\* the key (inc, r.area()) of choose_leaf; Python compares the tuples in order
ChooseKey(r, rect) == <<area(enlarge(r, rect)) - area(r), area(r)>>

KeyLess(a, b) == a[1] < b[1] \/ (a[1] = b[1] /\ a[2] < b[2])

\* the loop of choose_leaf: the index of best_child, the first smallest key
BestIndex(entries, rect) ==
    LET B[i \in 1..Len(entries)] ==
            IF i = 1 THEN 1
            ELSE IF KeyLess(ChooseKey(entries[i].r, rect), ChooseKey(entries[B[i - 1]].r, rect))
                 THEN i ELSE B[i - 1]
    IN  B[Len(entries)]

\* 0 is returned where Python would dereference None (an internal node
\* without entries leaves best_child None)
RECURSIVE choose_leaf(_, _, _)
choose_leaf(ns, n, rect) ==
    IF n = 0 THEN 0
    ELSE IF ns[n].leaf THEN n
    ELSE IF ns[n].entries = <<>> THEN 0
    ELSE choose_leaf(ns, ns[n].entries[BestIndex(ns[n].entries, rect)].c, rect)

\* the overflow test letting one entry more pass
OverflowsLate(count) == count > max_entries + 1

\* the overflow test firing one entry early
OverflowsEarly(count) == count >= max_entries

\* len(node.entries) > self.max_entries
Overflows(count) == count > max_entries

\* the cut position rounded up
SplitHalfCeil(count) == (count + 1) \div 2

\* the cut position of split_node
SplitHalf(count) == Max(1, count \div 2)

\* a split that leaves the parent pointers of the children alone
ReparentNone(ns, entries, p) == ns

\* the children named by a list of internal entries get parent p
Reparent(ns, entries, p) ==
    [i \in 1..Len(ns) |->
        IF \E j \in 1..Len(entries) : entries[j].c = i
        THEN [ns[i] EXCEPT !.parent = p] ELSE ns[i]]

\* what split_node did: the entries of the node before, those of both halves
\* after the slicing, and the parent of every child of both halves when
\* split_node returns (0 for the payloads of a leaf); isRoot is node is
\* self.root at that time
SplitEvent(node, n, new, fixed, isRoot) ==
    [node |-> n, new |-> new, leaf |-> node.leaf, newleaf |-> fixed[new].leaf,
     isRoot |-> isRoot,
     before |-> node.entries, kept |-> fixed[n].entries, moved |-> fixed[new].entries,
     keptParents  |-> [j \in 1..Len(fixed[n].entries) |->
                         IF node.leaf THEN 0 ELSE fixed[fixed[n].entries[j].c].parent],
     movedParents |-> [j \in 1..Len(fixed[new].entries) |->
                         IF node.leaf THEN 0 ELSE fixed[fixed[new].entries[j].c].parent]]

\* the end of split_node: fixed is the heap it leaves
SplitLog(T, n, new, fixed) ==
    [T EXCEPT !.nodes = fixed,
              !.splits = Append(@, SplitEvent(T.nodes[n], n, new, fixed, n = T.root)),
              !.hollow = @ \/ fixed[n].entries = <<>>]

\* split_node after the slicing: sliced is the heap with both halves in place
SplitFix(T, n, new, left, right, sliced) ==
    SplitLog(T, n, new,
             IF T.nodes[n].leaf THEN sliced
             ELSE Reparent(Reparent(sliced, left, n), right, new))

SplitSlice(T, n, new, left, right) ==
    SplitFix(T, n, new, left, right,
             Append([T.nodes EXCEPT ![n].entries = left],
                    [Node(T.nodes[n].leaf) EXCEPT !.entries = right]))

\* split_node: the new node is the last of the heap afterwards
split_node(T, n) ==
    SplitSlice(T, n, Len(T.nodes) + 1,
               SubSeq(T.nodes[n].entries, 1, SplitHalf(Len(T.nodes[n].entries))),
               SubSeq(T.nodes[n].entries, SplitHalf(Len(T.nodes[n].entries)) + 1,
                      Len(T.nodes[n].entries)))

\* new_root.add(X.mbr(), X), where mbr() asserts
AddChild(T, p, child) ==
    IF T.err THEN T
    ELSE IF T.nodes[child].entries = <<>> THEN Raise(T)
    ELSE add(T, p, ChildEntry(mbr(T.nodes[child].entries), child), TRUE)

\* a root branch that leaves self.root alone
SetRootKeep(T, n, new, nr) ==
    IF T.err THEN T
    ELSE [T EXCEPT !.nodes[n].parent = nr, !.nodes[new].parent = nr]

\* the end of the root branch of adjust_after_split
SetRoot(T, n, new, nr) ==
    IF T.err THEN T
    ELSE [T EXCEPT !.nodes[n].parent = nr, !.nodes[new].parent = nr, !.root = nr]

\* the root branch of adjust_after_split: new_root is node nr
GrowRoot(S, n, new, nr) ==
    SetRoot(AddChild(AddChild([S EXCEPT !.nodes = Append(@, Node(FALSE))], nr, n),
                     nr, new),
            n, new, nr)

RECURSIVE adjust_after_split(_, _)

\* the parent branch of adjust_after_split, P the heap after parent.add
Propagate(P, parent) ==
    IF P.err THEN P
    ELSE IF Overflows(Len(P.nodes[parent].entries)) THEN adjust_after_split(P, parent)
    ELSE P

\* adjust_after_split once split_node has returned S; new is the sibling
AfterSplit(S, n, new) ==
    IF n = S.root THEN GrowRoot(S, n, new, new + 1)
    ELSE IF S.nodes[n].parent = 0 THEN Raise(S)
    ELSE Propagate(AddChild(S, S.nodes[n].parent, new), S.nodes[n].parent)

adjust_after_split(T, n) == AfterSplit(split_node(T, n), n, Len(T.nodes) + 1)

\* the index of the first entry of p whose child is n, 0 if none
FirstRef(entries, n) ==
    IF \E i \in 1..Len(entries) : entries[i].c = n
    THEN CHOOSE i \in 1..Len(entries) :
            entries[i].c = n /\ \A j \in 1..(i - 1) : entries[j].c # n
    ELSE 0

\* p.entries[i] = (new_m, c) for the first i of c is node
Refresh(T, n, p, i) ==
    IF i = 0 THEN T
    ELSE [T EXCEPT !.nodes[p].entries[i].r = mbr(T.nodes[n].entries)]

RECURSIVE bubble_up_mbr(_, _)
bubble_up_mbr(T, n) ==
    IF T.err \/ n = 0 THEN T
    ELSE IF T.nodes[n].parent = 0 THEN T
    ELSE IF T.nodes[n].entries = <<>> THEN Raise(T)
    ELSE bubble_up_mbr(Refresh(T, n, T.nodes[n].parent,
                               FirstRef(T.nodes[T.nodes[n].parent].entries, n)),
                       T.nodes[n].parent)

\* if len(leaf.entries) > self.max_entries: self.adjust_after_split(leaf)
SplitIfOver(A, leaf) ==
    IF Overflows(Len(A.nodes[leaf].entries)) THEN adjust_after_split(A, leaf) ELSE A

\* RTree.insert once choose_leaf has returned leaf
InsertAt(T, leaf, e) ==
    IF leaf = 0 THEN Raise(T) ELSE SplitIfOver(add(T, leaf, e, FALSE), leaf)

\* RTree.insert
RTree_insert(T, e) ==
    IF T.err THEN T ELSE InsertAt(T, choose_leaf(T.nodes, T.root, e.r), e)

(***************************************************************************)
(* RStarTree: forced reinsertion                                           *)
(***************************************************************************)
\* Python's round() of the quotient num / den: halves go to the even integer
RoundHalfEven(num, den) ==
    LET q == num \div den
        r == num % den
    IN  IF 2 * r < den THEN q
        ELSE IF 2 * r > den THEN q + 1
        ELSE IF q % 2 = 0 THEN q ELSE q + 1

\* the sort key of _forced_reinsert_once, times four: the squared distance of
\* the centre of r to the centre of m
Dist4(r, m) ==
    ((r.x1 + r.x2) - (m.x1 + m.x2)) * ((r.x1 + r.x2) - (m.x1 + m.x2)) +
    ((r.y1 + r.y2) - (m.y1 + m.y2)) * ((r.y1 + r.y2) - (m.y1 + m.y2))

\* sorted(entries, key=..., reverse=True): stable, so equal keys keep the
\* order of entries; the first entry of the largest key comes first
RECURSIVE Ranked(_, _)
Ranked(entries, m) ==
    IF entries = <<>> THEN <<>>
    ELSE LET i == CHOOSE i \in 1..Len(entries) :
                    /\ \A j \in 1..Len(entries) : Dist4(entries[j].r, m) <= Dist4(entries[i].r, m)
                    /\ \A j \in 1..(i - 1) : Dist4(entries[j].r, m) < Dist4(entries[i].r, m)
         IN  <<entries[i]>> \o
             Ranked(SubSeq(entries, 1, i - 1) \o SubSeq(entries, i + 1, Len(entries)), m)

\* k of _forced_reinsert_once for a node of count entries
ReinsertCount(count) ==
    Min(Max(1, RoundHalfEven(reinsertion_ratio * count, RatioDen)), count - 1)

InSeq(e, seq) == \E i \in 1..Len(seq) : seq[i] = e

\* [e for e in entries if e not in to_reinsert]
Keep(entries, to_reinsert) ==
    LET K[i \in 0..Len(entries)] ==
            IF i = 0 THEN <<>>
            ELSE IF InSeq(entries[i], to_reinsert) THEN K[i - 1]
                 ELSE Append(K[i - 1], entries[i])
    IN  K[Len(entries)]

\* the re-insert dispatched to the insert of the subclass (self.insert), cut
\* off at the second nested pass
RECURSIVE RStarTree_insert(_, _)
ReinsertOnePolymorphic(T, e) ==
    IF Len(T.evictions) >= 2 THEN RTree_insert(T, e) ELSE RStarTree_insert(T, e)

\* super().insert(r, payload) of the reinsertion loop
ReinsertOne(T, e) == RTree_insert(T, e)

RECURSIVE ReinsertAll(_, _, _)
ReinsertAll(T, to_reinsert, i) ==
    IF i > Len(to_reinsert) THEN T
    ELSE ReinsertAll(ReinsertOne(T, to_reinsert[i]), to_reinsert, i + 1)

\* what _forced_reinsert_once did to node n
EvictEvent(n, entries, m, k, to_reinsert, keep) ==
    [node |-> n, before |-> entries, m |-> m, k |-> k,
     to_reinsert |-> to_reinsert, keep |-> keep]

\* node.entries = keep, the reinsertion loop and the final _bubble_up_mbr
Evict(T, n, m, k, to_reinsert, keep) ==
    bubble_up_mbr(
        ReinsertAll([T EXCEPT !.nodes[n].entries = keep,
                              !.evictions = Append(@, EvictEvent(n, T.nodes[n].entries, m, k,
                                                                 to_reinsert, keep)),
                              !.hollow = @ \/ keep = <<>>],
                    to_reinsert, 1),
        n)

EvictFirst(T, n, m, k, to_reinsert) ==
    Evict(T, n, m, k, to_reinsert, Keep(T.nodes[n].entries, to_reinsert))

EvictRanked(T, n, m, k, ranked) == EvictFirst(T, n, m, k, SubSeq(ranked, 1, k))

EvictFrom(T, n, m) ==
    EvictRanked(T, n, m, ReinsertCount(Len(T.nodes[n].entries)),
                Ranked(T.nodes[n].entries, m))

forced_reinsert_once(T, n) ==
    IF ~Overflows(Len(T.nodes[n].entries)) THEN T
    ELSE IF T.nodes[n].entries = <<>> THEN Raise(T)
    ELSE EvictFrom(T, n, mbr(T.nodes[n].entries))

\* _forced_reinsert_once has returned: the split_node calls made so far are
\* those of its re-inserts
PassDone(F) == [F EXCEPT !.passSplits = Len(F.splits)]

\* an insert that splits the leaf after the forced reinsertion as well
SettleSplit(F, leaf) ==
    IF F.err THEN F
    ELSE IF Overflows(Len(F.nodes[leaf].entries))
            \/ (F.evictions # <<>> /\ Len(F.nodes[leaf].entries) >= 2)
         THEN adjust_after_split(F, leaf)
    ELSE bubble_up_mbr(F, leaf)

\* RStarTree.insert after the forced reinsertion: split, or bubble up
Settle(F, leaf) ==
    IF F.err THEN F
    ELSE IF Overflows(Len(F.nodes[leaf].entries)) THEN adjust_after_split(F, leaf)
    ELSE bubble_up_mbr(F, leaf)

\* RStarTree.insert once leaf.add has returned A
ReinsertIfOver(A, leaf) ==
    Settle(IF Overflows(Len(A.nodes[leaf].entries))
           THEN PassDone(forced_reinsert_once(A, leaf)) ELSE A,
           leaf)

\* RStarTree.insert once choose_leaf has returned leaf
StarInsertAt(T, leaf, e) ==
    IF leaf = 0 THEN Raise(T) ELSE ReinsertIfOver(add(T, leaf, e, FALSE), leaf)

\* RStarTree.insert
RStarTree_insert(T, e) ==
    IF T.err THEN T ELSE StarInsertAt(T, choose_leaf(T.nodes, T.root, e.r), e)

(***************************************************************************)
(* Queries                                                                 *)
(***************************************************************************)
\* a traversal that counts a node twice
visitTwice(v) == v + 2

\* _visit
visit(v) == v + 1

\* out.extend(self.range_query(rect, c)), the visits of the call added
Extend(acc, sub) == [out |-> acc.out \o sub.out, visits |-> acc.visits + sub.visits]

\* range_query(rect, node): the list out and the number of _visit calls
RECURSIVE range_query(_, _, _)
range_query(ns, n, rect) ==
    LET es == ns[n].entries
        Q[i \in 0..Len(es)] ==
            IF i = 0 THEN [out |-> <<>>, visits |-> visit(0)]
            ELSE IF ~intersects(rect, es[i].r) THEN Q[i - 1]
            ELSE IF ns[n].leaf
                 THEN [out |-> Append(Q[i - 1].out, es[i].c), visits |-> Q[i - 1].visits]
                 ELSE Extend(Q[i - 1], range_query(ns, es[i].c, rect))
    IN  Q[Len(es)]

(***************************************************************************)
(* The calls                                                               *)
(***************************************************************************)
\* what a constructor is called with; ratio 0 stands for "no ratio" of RTree
Configs ==
    {[kind |-> "RTree", max_entries |-> m, ratio |-> 0] : m \in 0..MaxCap}
    \cup {[kind |-> "RStarTree", max_entries |-> m, ratio |-> q] : m \in 2..MaxCap, q \in {3, 5}}
    \cup {[kind |-> "RStarTree", max_entries |-> 2, ratio |-> 10]}

NoLog == [peak |-> 0, hollow |-> FALSE, splits |-> <<>>, evictions |-> <<>>,
          passSplits |-> 0]

Idle(op) == [op |-> op, log |-> NoLog, w |-> Rect(0, 0, 0, 0), out |-> <<>>]

Init ==
    /\ kind = "none"
    /\ max_entries = 0
    /\ reinsertion_ratio = 0
    /\ nodes = <<>>
    /\ root = 0
    /\ node_visits = 0
    /\ inserted = <<>>
    /\ err = FALSE
    /\ last = Idle("none")

\* RTree.__init__ / RStarTree.__init__
Construct(cfg) ==
    /\ kind = "none"
    /\ kind' = cfg.kind
    /\ max_entries' = cfg.max_entries
    /\ reinsertion_ratio' = cfg.ratio
    /\ nodes' = <<Node(TRUE)>>
    /\ root' = 1
    /\ node_visits' = 0
    /\ last' = Idle("init")
    /\ UNCHANGED <<inserted, err>>

Heap == [nodes |-> nodes, root |-> root, err |-> FALSE,
         peak |-> 0, hollow |-> FALSE, splits |-> <<>>, evictions |-> <<>>,
         passSplits |-> 0]

\* the state an insert call leaves, R what the call made of the heap
Inserted(R, e) ==
    /\ nodes' = R.nodes
    /\ root' = R.root
    /\ err' = R.err
    /\ inserted' = Append(inserted, e)
    /\ last' = [Idle("insert") EXCEPT
                   !.log = [peak |-> R.peak, hollow |-> R.hollow,
                            splits |-> R.splits, evictions |-> R.evictions,
                            passSplits |-> R.passSplits]]
    /\ UNCHANGED <<kind, max_entries, reinsertion_ratio, node_visits>>

\* insert(rect, data) of the constructed class, e the entry (rect, data)
InsertEntry(e) ==
    /\ kind # "none"
    /\ ~err
    /\ Len(inserted) < MaxInserts
    /\ Inserted(IF kind = "RStarTree" THEN RStarTree_insert(Heap, e)
                ELSE RTree_insert(Heap, e), e)

\* insert of a Rect object the caller holds
Insert(obj, data) == InsertEntry(LeafEntry(obj, data))

\* t.insert(make_point_rect(i, i), n) for the n-th call, as build() of
\* experiment.py numbers its payloads; the Rect is a new object each time
InsertPoint(i) ==
    InsertEntry([r |-> make_point_rect2(i, i), c |-> Len(inserted),
                 obj |-> Len(RectTable) + Len(inserted) + 1])

\* t.insert(make_point_rect(x, y), n) for the n-th call, numbered the same way
InsertXY(x, y) ==
    InsertEntry([r |-> make_point_rect2(x, y), c |-> Len(inserted),
                 obj |-> Len(RectTable) + Len(inserted) + 1])

\* the state a range_query call leaves, R its result and its _visit calls
Queried(R, w) ==
    /\ node_visits + R.visits <= MaxVisits
    /\ node_visits' = node_visits + R.visits
    /\ last' = [Idle("query") EXCEPT !.w = w, !.out = R.out]
    /\ UNCHANGED <<kind, max_entries, reinsertion_ratio, nodes, root, inserted, err>>

\* range_query(rect)
RangeQuery(w) ==
    /\ kind # "none"
    /\ ~err
    /\ Queried(range_query(nodes, root, w), w)

\* _reset()
Reset ==
    /\ kind # "none"
    /\ ~err
    /\ node_visits' = 0
    /\ last' = Idle("reset")
    /\ UNCHANGED <<kind, max_entries, reinsertion_ratio, nodes, root, inserted, err>>

\* Construction and insertion: every tree MaxInserts calls can build.
\* range_query and _reset write node_visits only, so they add no tree.
Next ==
    \/ \E cfg \in Configs : Construct(cfg)
    \/ \E obj \in RectObjs, data \in Payloads : Insert(obj, data)

Spec == Init /\ [][Next]_vars

\* All four calls interleaved, over the trees of MaxInsertsQ insertions.
InsertQ(obj, data) == Len(inserted) < MaxInsertsQ /\ Insert(obj, data)

NextQ ==
    \/ \E cfg \in Configs : Construct(cfg)
    \/ \E obj \in RectObjs, data \in Payloads : InsertQ(obj, data)
    \/ \E w \in Windows : RangeQuery(w)
    \/ Reset

SpecQ == Init /\ [][NextQ]_vars

\* Base indexes of capacity 2..4 filled with points of the diagonal.
GrowthConfigs == {[kind |-> "RTree", max_entries |-> m, ratio |-> 0] : m \in 2..4}

NextG ==
    \/ \E cfg \in GrowthConfigs : Construct(cfg)
    \/ \E i \in 0..MaxPoint : InsertPoint(i)

SpecG == Init /\ [][NextG]_vars

\* Both variants at capacity 2 (ratio 0.5) filled with points of a grid.
HeightConfigs ==
    {[kind |-> "RTree", max_entries |-> 2, ratio |-> 0],
     [kind |-> "RStarTree", max_entries |-> 2, ratio |-> 5]}

NextH ==
    \/ \E cfg \in HeightConfigs : Construct(cfg)
    \/ \E x \in 0..MaxGrid, y \in 0..MaxGrid : InsertXY(x, y)

SpecH == Init /\ [][NextH]_vars

(***************************************************************************)
(* What the properties speak of                                            *)
(***************************************************************************)
Range(seq) == {seq[i] : i \in 1..Len(seq)}

\* the nodes of the subtree of n
RECURSIVE Subtree(_, _)
Subtree(ns, n) ==
    IF ns[n].leaf THEN {n}
    ELSE {n} \cup UNION {Subtree(ns, e.c) : e \in Range(ns[n].entries)}

Reachable == Subtree(nodes, root)

\* an index exists and its last call returned
Returned == kind # "none" /\ ~err

\* the (node, position) pairs of the entries that refer to node m
RefsTo(m) ==
    UNION {{<<n, i>> : i \in {j \in 1..Len(nodes[n].entries) : nodes[n].entries[j].c = m}} :
              n \in {x \in Reachable : ~nodes[x].leaf}}

\* the payloads inserted with a rectangle that intersects w
Expected(w) == {e.c : e \in {x \in Range(inserted) : intersects(x.r, w)}}

\* tree_height of experiment.py
RECURSIVE tree_height(_, _, _)
tree_height(ns, n, depth) ==
    IF ns[n].leaf THEN depth
    ELSE IF ns[n].entries = <<>> THEN depth
    ELSE LET hs == {tree_height(ns, e.c, depth + 1) : e \in Range(ns[n].entries)}
         IN  CHOOSE h \in hs : \A g \in hs : g <= h

\* the number of entries the last insert evicted
Evicted ==
    IF last.log.evictions = <<>> THEN 0 ELSE Len(last.log.evictions[1].to_reinsert)

(***************************************************************************)
(* C1  Query completeness: with max_entries >= 2, after any sequence of    *)
(* inserts and for every window w, range_query(w) returns payload p if and *)
(* only if p was inserted with a rectangle that intersects w.              *)
(***************************************************************************)
C1_QueryComplete ==
    (Returned /\ max_entries >= 2) =>
        \A w \in Windows : Range(range_query(nodes, root, w).out) = Expected(w)

(***************************************************************************)
(* C2  Bounding invariant: after an insert returns, every entry (r, child) *)
(* of every internal node has r = child.mbr() (capacities of at least 2).  *)
(***************************************************************************)
C2_BoundingInvariant ==
    (Returned /\ max_entries >= 2) =>
        \A n \in Reachable : ~nodes[n].leaf =>
            \A e \in Range(nodes[n].entries) :
                nodes[e.c].entries # <<>> /\ e.r = mbr(nodes[e.c].entries)

(***************************************************************************)
(* C3  Capacity bound: with max_entries >= 2, whenever an insert has       *)
(* returned every node reachable from the root holds at most max_entries   *)
(* entries, and inside the call no node held more than max_entries + 1.    *)
(***************************************************************************)
C3_CapacityBound ==
    (Returned /\ max_entries >= 2) =>
        /\ \A n \in Reachable : Len(nodes[n].entries) <= max_entries
        /\ last.log.peak <= max_entries + 1

\* an insert of the reinsertion variant whose re-inserts overflowed a node,
\* and one whose split overflowed the parent
C3_Witness ==
    /\ Returned /\ max_entries >= 2 /\ last.op = "insert"
    /\ last.log.peak = max_entries + 1
    /\ \/ kind = "RStarTree" /\ last.log.evictions # <<>> /\ last.log.splits # <<>>
       \/ Len(last.log.splits) >= 2

(***************************************************************************)
(* C4  Parent pointers: after an insert returns the root has no parent,    *)
(* every other reachable node is referenced by exactly one entry, and its  *)
(* parent is the node that holds that entry.                               *)
(***************************************************************************)
C4_ParentConsistency ==
    Returned =>
        /\ nodes[root].parent = 0
        /\ RefsTo(root) = {}
        /\ \A m \in Reachable \ {root} :
              /\ Cardinality(RefsTo(m)) = 1
              /\ \A ref \in RefsTo(m) : nodes[m].parent = ref[1]

\* an insert that split an internal node and grew a new root
C4_Witness ==
    /\ Returned /\ last.op = "insert"
    /\ \E i \in 1..Len(last.log.splits) :
          ~last.log.splits[i].leaf /\ last.log.splits[i].node # root

(***************************************************************************)
(* C5  Single pass and termination: one insert call runs the body of       *)
(* _forced_reinsert_once at most once (never for the base index), also     *)
(* when a re-inserted entry overflows a leaf, and the call ends after at   *)
(* most (1 + evicted entries) * height calls of split_node.                *)
(***************************************************************************)
C5_SinglePass ==
    (kind # "none" /\ last.op = "insert") =>
        /\ Len(last.log.evictions) <= 1
        /\ kind = "RTree" => last.log.evictions = <<>>
        /\ ~err => Len(last.log.splits) <= (1 + Evicted) * tree_height(nodes, root, 0)

\* a forced reinsertion whose re-insert overflowed a leaf, which was split
C5_Witness ==
    /\ Returned /\ kind = "RStarTree" /\ last.op = "insert"
    /\ Len(last.log.evictions) = 1
    /\ \E i \in 1..Len(last.log.splits) : last.log.splits[i].leaf

(***************************************************************************)
(* C6  Construction is validated: no index with max_entries < 2, and no    *)
(* reinsertion-variant index with a ratio outside (0,1), ever exists.      *)
(***************************************************************************)
ValidRatio == 0 < reinsertion_ratio /\ reinsertion_ratio < RatioDen

C6_ConstructionValidated ==
    kind # "none" => (max_entries >= 2 /\ (kind = "RStarTree" => ValidRatio))

(***************************************************************************)
(* C7  No empty node, no exception: with max_entries >= 2 (and a ratio in  *)
(* (0,1)), after the first insertion no insert raises, no reachable node   *)
(* is empty after a call, and none was emptied inside the call.            *)
(***************************************************************************)
C7_NoEmptyNode ==
    (kind # "none" /\ max_entries >= 2 /\ (kind = "RStarTree" => ValidRatio)
        /\ inserted # <<>>) =>
        /\ ~err
        /\ ~last.log.hollow
        /\ \A n \in Reachable : nodes[n].entries # <<>>

(***************************************************************************)
(* C8  Root growth of the base index of capacity M: the root is the        *)
(* initial leaf for the first M insertions; after insertion M + 1 it is an *)
(* internal node of exactly two entries whose children are leaves, have    *)
(* the root as parent, are bounded exactly by their entry rectangles and   *)
(* hold the M + 1 entries between them.  With M = 4 and the points (0,0),  *)
(* (1,1), (2,2), (3,3), (4,4) with payloads 0..4, the query over           *)
(* (0,0)-(2,2) returns exactly the payloads {0, 1, 2}.                     *)
(***************************************************************************)
Diagonal == [i \in 1..5 |-> make_point_rect2(i - 1, i - 1)]

IsScenario ==
    /\ kind = "RTree" /\ max_entries = 4 /\ ~err
    /\ Len(inserted) = 5
    /\ \A i \in 1..5 : inserted[i].r = Diagonal[i] /\ inserted[i].c = i - 1

C8_RootGrowth ==
    (kind = "RTree" /\ ~err) =>
        /\ Len(inserted) <= max_entries =>
              root = 1 /\ nodes[root].leaf /\ nodes[root].entries = inserted
        /\ Len(inserted) > max_entries => root # 1 /\ ~nodes[root].leaf
        /\ Len(inserted) = max_entries + 1 =>
              LET es == nodes[root].entries
              IN  /\ Len(es) = 2
                  /\ es[1].c # es[2].c
                  /\ \A i \in 1..2 :
                        /\ nodes[es[i].c].leaf
                        /\ nodes[es[i].c].parent = root
                        /\ es[i].r = mbr(nodes[es[i].c].entries)
                  /\ Range(nodes[es[1].c].entries) \cup Range(nodes[es[2].c].entries)
                        = Range(inserted)
                  /\ Len(nodes[es[1].c].entries) + Len(nodes[es[2].c].entries)
                        = max_entries + 1
        /\ IsScenario =>
              Range(range_query(nodes, root, make_point_rect4(0, 0, 2, 2)).out) = {0, 1, 2}

\* the scenario of capacity 4 has been run
C8_Witness == IsScenario /\ ~nodes[root].leaf

(***************************************************************************)
(* C9  Visit counter: a step that inserts leaves node_visits unchanged; a  *)
(* step that raises node_visits is a range_query(w), raises it by the      *)
(* number of nodes entered (the root, and every child whose entry          *)
(* rectangle in an entered internal node intersects w) on top of the value *)
(* accumulated before, and leaves the root, the entries and the parent     *)
(* pointers alone; a step that lowers it is the reset and leaves 0.        *)
(***************************************************************************)
\* the nodes range_query(w) enters below and including n
RECURSIVE Entered(_, _, _)
Entered(ns, n, w) ==
    IF ns[n].leaf THEN {n}
    ELSE {n} \cup UNION {Entered(ns, e.c, w) :
                            e \in {x \in Range(ns[n].entries) : intersects(w, x.r)}}

VisitStep ==
    /\ inserted' # inserted => node_visits' = node_visits
    /\ node_visits' > node_visits =>
          /\ last'.op = "query"
          /\ node_visits' = node_visits + Cardinality(Entered(nodes, root, last'.w))
          /\ nodes' = nodes /\ root' = root
    /\ node_visits' < node_visits => last'.op = "reset" /\ node_visits' = 0
    /\ last'.op = "reset" => node_visits' = 0
    /\ (last'.op = "query" /\ last' # last) => node_visits' > node_visits

C9_VisitCounter == [][VisitStep]_vars

\* a second query in a row that entered a child of an internal root
C9_Witness ==
    /\ Returned /\ last.op = "query" /\ ~nodes[root].leaf
    /\ Cardinality(Entered(nodes, root, last.w)) >= 2
    /\ node_visits > Cardinality(Entered(nodes, root, last.w))

(***************************************************************************)
(* C10  Linear split position (as amended): a split of a node of count     *)
(* entries leaves the first floor(count/2) entries (at least one) in the   *)
(* node, in order, and moves the other entries, in order, to a new sibling *)
(* of the same kind; after the split of an internal node the parent of     *)
(* every moved child is the sibling and that of every retained child is    *)
(* the node.                                                               *)
(***************************************************************************)
SplitAt(ev, cut) ==
    /\ ev.newleaf = ev.leaf
    /\ ev.new # ev.node
    /\ ev.kept = SubSeq(ev.before, 1, cut)
    /\ ev.moved = SubSeq(ev.before, cut + 1, Len(ev.before))
    /\ Len(ev.kept) = cut
    /\ Len(ev.moved) = Len(ev.before) - cut
    /\ ~ev.leaf =>
          /\ \A j \in 1..Len(ev.keptParents) : ev.keptParents[j] = ev.node
          /\ \A j \in 1..Len(ev.movedParents) : ev.movedParents[j] = ev.new

Floor2(count) == IF count \div 2 < 1 THEN 1 ELSE count \div 2
Ceil2(count) == (count + 1) \div 2

C10_SplitFloor ==
    \A i \in 1..Len(last.log.splits) :
        SplitAt(last.log.splits[i], Floor2(Len(last.log.splits[i].before)))

\* the claim as stated (capacities of at least 2): the node keeps the first
\* ceil(count/2) entries
C10_SplitCeil ==
    max_entries >= 2 =>
    \A i \in 1..Len(last.log.splits) :
        SplitAt(last.log.splits[i], Ceil2(Len(last.log.splits[i].before)))

\* a split of an internal node of an odd number of entries
C10_Witness ==
    /\ Returned
    /\ \E i \in 1..Len(last.log.splits) :
          ~last.log.splits[i].leaf /\ Len(last.log.splits[i].before) % 2 = 1

(***************************************************************************)
(* C11  Eviction set: when _forced_reinsert_once runs on a node of         *)
(* n > max_entries entries (capacity at least 2, ratio in (0,1)), it       *)
(* removes exactly k = min(max(1, round(ratio * n)), n - 1) entries, they  *)
(* are the k entries farthest (centre to centre, squared distance) from    *)
(* the centre of the node's bounding rectangle, ties going to the earlier  *)
(* entry, and the node holds the other n - k >= 1 entries, in order, when  *)
(* the first evicted entry is re-inserted.                                 *)
(***************************************************************************)
\* entry i of entries comes before entry j in the ranking around m
Farther(entries, m, i, j) ==
    \/ Dist4(entries[i].r, m) > Dist4(entries[j].r, m)
    \/ Dist4(entries[i].r, m) = Dist4(entries[j].r, m) /\ i < j

\* the place (1 is the farthest) of entry i in the ranking around m
RankOf(entries, m, i) ==
    1 + Cardinality({j \in 1..Len(entries) : j # i /\ Farther(entries, m, j, i)})

\* the entries of rank above k, in the order of entries
Stayers(entries, m, k) ==
    LET S[i \in 0..Len(entries)] ==
            IF i = 0 THEN <<>>
            ELSE IF RankOf(entries, m, i) > k THEN Append(S[i - 1], entries[i])
                 ELSE S[i - 1]
    IN  S[Len(entries)]

EvictsFarthest(ev) ==
    LET n == Len(ev.before)
        k == Min(Max(1, RoundHalfEven(reinsertion_ratio * n, RatioDen)), n - 1)
    IN  /\ n > max_entries
        /\ ev.m = mbr(ev.before)
        /\ ev.k = k
        /\ Len(ev.to_reinsert) = k
        /\ \A i \in 1..n :
              RankOf(ev.before, ev.m, i) <= k =>
                  ev.to_reinsert[RankOf(ev.before, ev.m, i)] = ev.before[i]

KeepsTheRest(ev) ==
    /\ Len(ev.keep) = Len(ev.before) - ev.k
    /\ Len(ev.keep) >= 1
    /\ ev.keep = Stayers(ev.before, ev.m, ev.k)

C11_EvictionSet ==
    (kind = "RStarTree" /\ max_entries >= 2 /\ ValidRatio) =>
        \A i \in 1..Len(last.log.evictions) :
            EvictsFarthest(last.log.evictions[i]) /\ KeepsTheRest(last.log.evictions[i])

(***************************************************************************)
(* C12  Forced reinsertion and the split of the leaf (as amended): in the  *)
(* reinsertion variant (capacity at least 2, ratio in (0,1)), when an      *)
(* insert overflows a leaf the eviction leaves it at most max_entries      *)
(* entries and insert itself does not split it afterwards: every split of  *)
(* the call is made by the re-insertion of an evicted entry.  The leaf is  *)
(* split in the call only when such an entry is routed back to it and      *)
(* overflows it again.  When the call returns, every rectangle on the path *)
(* from the leaf to the root is the bounding rectangle of its child.       *)
(***************************************************************************)
\* the nodes from n up to the root, along the parent pointers
RECURSIVE PathUp(_, _)
PathUp(ns, n) == IF ns[n].parent = 0 THEN {n} ELSE {n} \cup PathUp(ns, ns[n].parent)

\* every rectangle that bounds a node of the path of n is exact
PathExact(n) ==
    \A x \in PathUp(nodes, n) :
        nodes[x].parent # 0 =>
            \A e \in Range(nodes[nodes[x].parent].entries) :
                e.c = x => (nodes[x].entries # <<>> /\ e.r = mbr(nodes[x].entries))

\* an insert of the reinsertion variant that overflowed a leaf has returned
PassReturned ==
    /\ Returned /\ kind = "RStarTree" /\ max_entries >= 2 /\ ValidRatio
    /\ last.op = "insert" /\ last.log.evictions # <<>>

\* the split events of the last call that split node n
SplitsOf(n) == {i \in 1..Len(last.log.splits) : last.log.splits[i].node = n}

Pair(e) == <<e.r, e.c>>

\* the leaves reachable from the root
Leaves == {n \in Reachable : nodes[n].leaf}

\* where the leaves hold things: (leaf, position)
LeafSlots == UNION {{<<n, i>> : i \in 1..Len(nodes[n].entries)} : n \in Leaves}

TimesHeld(p) == Cardinality({s \in LeafSlots : Pair(nodes[s[1]].entries[s[2]]) = p})

TimesInserted(p) == Cardinality({i \in 1..Len(inserted) : Pair(inserted[i]) = p})

C13_EntryConservation ==
    (Returned /\ max_entries >= 2 /\ (kind = "RStarTree" => ValidRatio)) =>
        /\ Cardinality(LeafSlots) = Len(inserted)
        /\ \A p \in {Pair(e) : e \in Range(inserted)} : TimesHeld(p) = TimesInserted(p)
        /\ \A s \in LeafSlots : TimesInserted(Pair(nodes[s[1]].entries[s[2]])) > 0

(***************************************************************************)
(* C14  Uniform leaf depth and node kinds (as amended): after every        *)
(* returned call every leaf reachable from the root is at the same depth,  *)
(* which is the height tree_height computes; a node flagged leaf holds     *)
(* payload entries only and an internal node holds child-node entries      *)
(* only.  The height never decreases: a call raises it by one for every    *)
(* split of the root it makes (an insert of the reinsertion variant can    *)
(* make more than one) and leaves it unchanged when it splits no root.     *)
(***************************************************************************)
\* the depths of the leaves below n, n being at depth
RECURSIVE LeafDepths(_, _, _)
LeafDepths(ns, n, depth) ==
    IF ns[n].leaf THEN {depth}
    ELSE UNION {LeafDepths(ns, e.c, depth + 1) : e \in Range(ns[n].entries)}

UniformDepth(ns, r) == LeafDepths(ns, r, 0) = {tree_height(ns, r, 0)}

\* a payload entry carries the Rect object of the caller, a child entry the
\* rectangle insert computed and a node of the heap
KindsKept(ns, r) ==
    \A n \in Subtree(ns, r) :
        \A e \in Range(ns[n].entries) :
            IF ns[n].leaf THEN e.obj # 0
            ELSE e.obj = 0 /\ e.c \in 1..Len(ns) /\ e.c # n

\* the splits of the root a call made
RootSplits(log) == Cardinality({i \in 1..Len(log.splits) : log.splits[i].isRoot})

HeightStep ==
    /\ (kind' # "none" /\ ~err') => (UniformDepth(nodes', root') /\ KindsKept(nodes', root'))
    /\ (kind # "none" /\ ~err') =>
          /\ tree_height(nodes', root', 0) >= tree_height(nodes, root, 0)
          /\ tree_height(nodes', root', 0) =
                tree_height(nodes, root, 0) + RootSplits(last'.log)
          /\ (root' # root) = (RootSplits(last'.log) > 0)

C14_UniformDepth == [][HeightStep]_vars

\* the claim as stated: an insert raises the height by one at most, and by
\* one exactly when it splits the root
GrowsByOne ==
    /\ (kind' # "none" /\ ~err') => (UniformDepth(nodes', root') /\ KindsKept(nodes', root'))
    /\ (kind # "none" /\ ~err') =>
          /\ tree_height(nodes', root', 0) >= tree_height(nodes, root, 0)
          /\ tree_height(nodes', root', 0) <= tree_height(nodes, root, 0) + 1
          /\ (tree_height(nodes', root', 0) = tree_height(nodes, root, 0) + 1)
                = (RootSplits(last'.log) > 0)

C14_GrowsByOnePerCall == [][GrowsByOne]_vars

\* one insert of the reinsertion variant split the root twice: a leaf root
\* first, the internal root that replaced it next
C14_Witness ==
    /\ Returned /\ kind = "RStarTree" /\ last.op = "insert"
    /\ RootSplits(last.log) = 2
    /\ tree_height(nodes, root, 0) = 3

====
